---------------------------- MODULE Spec2Model ----------------------------
(***************************************************************************)
(* A model of src/src/utils/documentParser.js: the extraction and          *)
(* normalisation pipeline that turns loosely structured text into a        *)
(* uniform list of flat records.                                           *)
(*                                                                         *)
(* JavaScript values are tagged tuples:                                    *)
(*   <<"null">>  <<"undefined">>  <<"bool", b>>  <<"num", n>>              *)
(*   <<"str", chars>>  <<"arr", items>>  <<"obj", pairs>>                  *)
(* A string is the tuple of its characters, an object the tuple of its     *)
(* <<key, value>> pairs in property order.  A call that throws returns     *)
(* <<"throw", kind>>.                                                      *)
(***************************************************************************)
EXTENDS Integers, Sequences, FiniteSets, TLC

VARIABLES pc, arg, isWordDoc, entries, ret

vars == <<pc, arg, isWordDoc, entries, ret>>

(***************************************************************************)
(* Bounds of the model.                                                    *)
(***************************************************************************)
MaxSize == 4

(***************************************************************************)
(* JavaScript values.                                                      *)
(***************************************************************************)
Null == <<"null">>
Undefined == <<"undefined">>
Bool(b) == <<"bool", b>>
Num(n) == <<"num", n>>
Str(s) == <<"str", s>>
Arr(xs) == <<"arr", xs>>
Obj(ps) == <<"obj", ps>>
Throw(kind) == <<"throw", kind>>
None == <<"none">>

IsThrow(v) == v[1] = "throw"
TypeOf(v) == v[1]

EmptyString == Str(<<>>)

Digits == <<"0", "1", "2", "3", "4", "5", "6", "7", "8", "9">>
DigitSet == {Digits[i] : i \in 1..10}

RECURSIVE DecStr(_)
DecStr(n) == IF n < 10 THEN <<Digits[n + 1]>>
             ELSE DecStr(n \div 10) \o <<Digits[(n % 10) + 1]>>

DigitVal(c) == CHOOSE d \in 0..9 : Digits[d + 1] = c

RECURSIVE StrToNat(_)
StrToNat(s) == IF s = <<>> THEN 0
               ELSE 10 * StrToNat(SubSeq(s, 1, Len(s) - 1)) + DigitVal(s[Len(s)])

RECURSIVE Join(_, _)
Join(strs, sep) == IF strs = <<>> THEN <<>>
                   ELSE IF Len(strs) = 1 THEN strs[1]
                   ELSE strs[1] \o sep \o Join(Tail(strs), sep)

(* the || operator's test: null, undefined, false, 0 and "" are falsy *)
Truthy(v) == CASE TypeOf(v) \in {"null", "undefined"} -> FALSE
               [] TypeOf(v) = "bool" -> v[2]
               [] TypeOf(v) = "num" -> v[2] # 0
               [] TypeOf(v) = "str" -> v[2] # <<>>
               [] OTHER -> TRUE

OrElse(v, w) == IF Truthy(v) THEN v ELSE w

(* typeof v === 'object' *)
IsTypeofObject(v) == TypeOf(v) \in {"null", "arr", "obj"}

(* String(v) *)
RECURSIVE JSString(_)
JSString(v) ==
  CASE TypeOf(v) = "null" -> <<"n", "u", "l", "l">>
    [] TypeOf(v) = "undefined" -> <<"u", "n", "d", "e", "f", "i", "n", "e", "d">>
    [] TypeOf(v) = "bool" -> IF v[2] THEN <<"t", "r", "u", "e">>
                             ELSE <<"f", "a", "l", "s", "e">>
    [] TypeOf(v) = "num" -> DecStr(v[2])
    [] TypeOf(v) = "str" -> v[2]
    [] TypeOf(v) = "arr" ->
         Join([i \in 1..Len(v[2]) |->
                 IF TypeOf(v[2][i]) \in {"null", "undefined"} THEN <<>>
                 ELSE JSString(v[2][i])], <<",">>)
    [] OTHER -> <<"[", "o", "b", "j", "e", "c", "t", " ",
                  "O", "b", "j", "e", "c", "t", "]">>

(***************************************************************************)
(* Objects: property lookup and assignment in JavaScript's property order  *)
(* (array-index keys ascending, then other keys in insertion order).       *)
(***************************************************************************)
IsArrayIndex(k) == /\ k # <<>>
                   /\ \A i \in 1..Len(k) : k[i] \in DigitSet
                   /\ (Len(k) = 1 \/ k[1] # "0")

KeysOf(o) == [i \in 1..Len(o[2]) |-> o[2][i][1]]
KeySet(o) == {o[2][i][1] : i \in 1..Len(o[2])}
ValuesOf(o) == [i \in 1..Len(o[2]) |-> o[2][i][2]]

HasKey(o, k) == k \in KeySet(o)

GetProp(o, k) == IF HasKey(o, k)
                 THEN o[2][CHOOSE i \in 1..Len(o[2]) : o[2][i][1] = k][2]
                 ELSE Undefined

InsertAt(ps, i, p) == SubSeq(ps, 1, i - 1) \o <<p>> \o SubSeq(ps, i, Len(ps))

Precedes(k, other) == IsArrayIndex(k) /\
                      (~IsArrayIndex(other) \/ StrToNat(k) < StrToNat(other))

SetProp(o, k, v) ==
  LET ps == o[2] IN
  IF HasKey(o, k)
  THEN Obj([i \in 1..Len(ps) |-> IF ps[i][1] = k THEN <<k, v>> ELSE ps[i]])
  ELSE LET later == {i \in 1..Len(ps) : Precedes(k, ps[i][1])} IN
       IF later = {} THEN Obj(Append(ps, <<k, v>>))
       ELSE Obj(InsertAt(ps, CHOOSE i \in later : \A j \in later : i <= j, <<k, v>>))

RECURSIVE AssignPairs(_, _)
AssignPairs(target, ps) ==
  IF ps = <<>> THEN target
  ELSE AssignPairs(SetProp(target, ps[1][1], ps[1][2]), Tail(ps))

(* Object.assign(target, source) *)
ObjectAssign(target, source) == AssignPairs(target, source[2])

(* Object.entries(v) of a value that is not null or undefined *)
ObjectEntries(v) ==
  CASE TypeOf(v) = "obj" -> v[2]
    [] TypeOf(v) = "arr" -> [i \in 1..Len(v[2]) |-> <<DecStr(i - 1), v[2][i]>>]
    [] TypeOf(v) = "str" -> [i \in 1..Len(v[2]) |-> <<DecStr(i - 1), Str(<<v[2][i]>>)>>]
    [] OTHER -> <<>>

(***************************************************************************)
(* flattenObject                                                           *)
(***************************************************************************)
BadNewKey(prefix, key) == prefix \o <<"_">> \o key

NewKey(prefix, key) == IF prefix # <<>> THEN prefix \o <<"_">> \o key ELSE key

JoinScalars(items) ==
  Str(Join([i \in 1..Len(items) |-> JSString(OrElse(items[i], EmptyString))],
           <<",", " ">>))

RECURSIVE flattenObject(_, _)
RECURSIVE FlattenEntries(_, _, _)
RECURSIVE FlattenItems(_, _, _, _)

(* value.forEach((item, index) => Object.assign(flattened, flattenObject(item, ...))) *)
FlattenItems(items, index, newKey, flattened) ==
  IF index >= Len(items) THEN flattened
  ELSE LET sub == flattenObject(items[index + 1],
                                newKey \o <<"_">> \o DecStr(index)) IN
       IF IsThrow(sub) THEN sub
       ELSE FlattenItems(items, index + 1, newKey, ObjectAssign(flattened, sub))

(* the body of the for..of loop, over the entries not yet visited *)
FlattenEntries(es, prefix, flattened) ==
  IF es = <<>> THEN flattened
  ELSE
    LET key == es[1][1]
        value == es[1][2]
        newKey == NewKey(prefix, key)
        next ==
          CASE TypeOf(value) \in {"null", "undefined"} ->
                 SetProp(flattened, newKey, EmptyString)
            [] TypeOf(value) = "obj" ->
                 LET sub == flattenObject(value, newKey) IN
                 IF IsThrow(sub) THEN sub ELSE ObjectAssign(flattened, sub)
            [] TypeOf(value) = "arr" ->
                 IF Len(value[2]) > 0 /\ IsTypeofObject(value[2][1])
                 THEN FlattenItems(value[2], 0, newKey, flattened)
                 ELSE SetProp(flattened, newKey, JoinScalars(value[2]))
            [] OTHER -> SetProp(flattened, newKey, Str(JSString(value)))
    IN IF IsThrow(next) THEN next ELSE FlattenEntries(Tail(es), prefix, next)

flattenObject(obj, prefix) ==
  IF TypeOf(obj) \in {"null", "undefined"} THEN Throw("TypeError")
  ELSE FlattenEntries(ObjectEntries(obj), prefix, Obj(<<>>))

(***************************************************************************)
(* normalizeData                                                           *)
(***************************************************************************)
UpperCase == <<"A", "B", "C", "D", "E", "F", "G", "H", "I", "J", "K", "L", "M",
               "N", "O", "P", "Q", "R", "S", "T", "U", "V", "W", "X", "Y", "Z">>
LowerCase == <<"a", "b", "c", "d", "e", "f", "g", "h", "i", "j", "k", "l", "m",
               "n", "o", "p", "q", "r", "s", "t", "u", "v", "w", "x", "y", "z">>

LowerChar(c) == IF \E i \in 1..Len(UpperCase) : UpperCase[i] = c
                THEN LowerCase[CHOOSE i \in 1..Len(UpperCase) : UpperCase[i] = c]
                ELSE c

(* s.toLowerCase() *)
ToLowerCase(s) == [i \in 1..Len(s) |-> LowerChar(s[i])]

(* row[index], index counted from 0 *)
Index(row, index) ==
  CASE TypeOf(row) \in {"null", "undefined"} -> Throw("TypeError")
    [] TypeOf(row) = "arr" ->
         IF index < Len(row[2]) THEN row[2][index + 1] ELSE Undefined
    [] TypeOf(row) = "str" ->
         IF index < Len(row[2]) THEN Str(<<row[2][index + 1]>>) ELSE Undefined
    [] TypeOf(row) = "obj" -> GetProp(row, DecStr(index))
    [] OTHER -> Undefined

HeaderKey(header) == ToLowerCase(JSString(header))

Cell(row, index) == Index(row, index)

(* headers.forEach((header, index) => obj[...] = row[index] || '') *)
RECURSIVE TableRow(_, _, _, _)
TableRow(headers, index, row, obj) ==
  IF index >= Len(headers) THEN obj
  ELSE LET cell == Cell(row, index) IN
       IF IsThrow(cell) THEN cell
       ELSE TableRow(headers, index + 1, row,
                     SetProp(obj, HeaderKey(headers[index + 1]),
                             OrElse(cell, EmptyString)))

NormalizeEntry(entry) ==
  IF ~IsTypeofObject(entry) \/ TypeOf(entry) = "null"
  THEN Obj(<< <<<<"v", "a", "l", "u", "e">>, Str(JSString(entry))>> >>)
  ELSE flattenObject(entry, <<>>)

(* xs.map(f), where a call of f that throws ends the map *)
RECURSIVE MapRows(_, _, _)
MapRows(headers, rows, done) ==
  IF rows = <<>> THEN Arr(done)
  ELSE LET obj == TableRow(headers, 0, rows[1], Obj(<<>>)) IN
       IF IsThrow(obj) THEN obj ELSE MapRows(headers, Tail(rows), Append(done, obj))

RECURSIVE MapEntries(_, _)
MapEntries(es, done) ==
  IF es = <<>> THEN Arr(done)
  ELSE LET rec == NormalizeEntry(es[1]) IN
       IF IsThrow(rec) THEN rec ELSE MapEntries(Tail(es), Append(done, rec))

normalizeData(data) ==
  LET list == IF TypeOf(data) # "arr" THEN <<data>> ELSE data[2] IN
  IF Len(list) > 0 /\ TypeOf(list[1]) = "arr"
  THEN MapRows(list[1][2], Tail(list), <<>>)
  ELSE MapEntries(list, <<>>)

(***************************************************************************)
(* removeDuplicates and mergeEntries                                       *)
(***************************************************************************)
EscapeChar(c) == CASE c = "\"" -> <<"\\", "\"">>
                   [] c = "\\" -> <<"\\", "\\">>
                   [] c = "\n" -> <<"\\", "n">>
                   [] OTHER -> <<c>>

RECURSIVE Concat(_)
Concat(strs) == IF strs = <<>> THEN <<>> ELSE strs[1] \o Concat(Tail(strs))

Quote(s) == <<"\"">> \o Concat([i \in 1..Len(s) |-> EscapeChar(s[i])]) \o <<"\"">>

(* JSON.stringify(v) *)
RECURSIVE JSONStringify(_)
JSONStringify(v) ==
  CASE TypeOf(v) \in {"null", "undefined"} -> <<"n", "u", "l", "l">>
    [] TypeOf(v) \in {"bool", "num"} -> JSString(v)
    [] TypeOf(v) = "str" -> Quote(v[2])
    [] TypeOf(v) = "arr" ->
         <<"[">> \o Join([i \in 1..Len(v[2]) |-> JSONStringify(v[2][i])], <<",">>)
                 \o <<"]">>
    [] OTHER ->
         LET ps == SelectSeq(v[2], LAMBDA p : TypeOf(p[2]) # "undefined") IN
         <<"{">> \o Join([i \in 1..Len(ps) |->
                            Quote(ps[i][1]) \o <<":">> \o JSONStringify(ps[i][2])],
                         <<",">>)
                 \o <<"}">>

RECURSIVE FilterSeen(_, _, _)
FilterSeen(es, seen, kept) ==
  IF es = <<>> THEN kept
  ELSE LET key == JSONStringify(es[1]) IN
       IF key \in seen THEN FilterSeen(Tail(es), seen, kept)
       ELSE FilterSeen(Tail(es), seen \cup {key}, Append(kept, es[1]))

removeDuplicates(es) == FilterSeen(es, {}, <<>>)

(* a Set's iteration order: the order of first insertion *)
RECURSIVE AddAll(_, _)
AddAll(set, ks) ==
  IF ks = <<>> THEN set
  ELSE AddAll(IF \E i \in 1..Len(set) : set[i] = ks[1] THEN set
              ELSE Append(set, ks[1]), Tail(ks))

RECURSIVE CollectKeys(_, _)
CollectKeys(es, allKeys) ==
  IF es = <<>> THEN allKeys
  ELSE CollectKeys(Tail(es), AddAll(allKeys, KeysOf(es[1])))

FirstEntryKeys(uniqueEntries) ==
  IF uniqueEntries = <<>> THEN <<>> ELSE KeysOf(uniqueEntries[1])

AllKeys(uniqueEntries) == CollectKeys(uniqueEntries, <<>>)

RECURSIVE Padded(_, _, _)
Padded(entry, allKeys, normalized) ==
  IF allKeys = <<>> THEN normalized
  ELSE Padded(entry, Tail(allKeys),
              SetProp(normalized, allKeys[1],
                      OrElse(GetProp(entry, allKeys[1]), EmptyString)))

mergeEntries(es) ==
  LET uniqueEntries == removeDuplicates(es)
      allKeys == AllKeys(uniqueEntries)
  IN [i \in 1..Len(uniqueEntries) |-> Padded(uniqueEntries[i], allKeys, Obj(<<>>))]

(***************************************************************************)
(* JSON.parse: a value, or a thrown SyntaxError.  A text is the tuple of   *)
(* its characters.  Of the grammar, what the texts of this model never     *)
(* hold is left out: a sign, a fraction or an exponent in a number, and    *)
(* the escapes \b and \u.                                                  *)
(***************************************************************************)
Whitespace == {" ", "\n", "\t", "\r"}
ControlChars == {"\n", "\t", "\r", "\f"}

Err == <<"err">>
Ok(value, next) == <<"ok", value, next>>
IsOk(r) == r[1] = "ok"

RECURSIVE SkipWs(_, _)
SkipWs(s, i) == IF i <= Len(s) /\ s[i] \in Whitespace THEN SkipWs(s, i + 1) ELSE i

StartsWith(s, i, word) == /\ i + Len(word) - 1 <= Len(s)
                          /\ SubSeq(s, i, i + Len(word) - 1) = word

Unescape(c) == CASE c = "n" -> "\n"
                 [] c = "t" -> "\t"
                 [] c = "r" -> "\r"
                 [] c = "f" -> "\f"
                 [] OTHER -> c

(* the characters of a string literal, from i, the opening quote read *)
RECURSIVE ParseString(_, _, _)
ParseString(s, i, acc) ==
  IF i > Len(s) THEN Err
  ELSE IF s[i] = "\"" THEN Ok(Str(acc), i + 1)
  ELSE IF s[i] = "\\"
       THEN IF i + 1 <= Len(s) /\ s[i + 1] \in {"\"", "\\", "/", "n", "t", "r", "f"}
            THEN ParseString(s, i + 2, Append(acc, Unescape(s[i + 1])))
            ELSE Err
  ELSE IF s[i] \in ControlChars THEN Err
  ELSE ParseString(s, i + 1, Append(acc, s[i]))

RECURSIVE DigitsEnd(_, _)
DigitsEnd(s, i) == IF i <= Len(s) /\ s[i] \in DigitSet THEN DigitsEnd(s, i + 1) ELSE i

ParseNumber(s, i) ==
  IF s[i] = "0" THEN Ok(Num(0), i + 1)
  ELSE LET e == DigitsEnd(s, i) IN Ok(Num(StrToNat(SubSeq(s, i, e - 1))), e)

RECURSIVE ParseValue(_, _)
RECURSIVE ParseMembers(_, _, _)
RECURSIVE ParseElements(_, _, _)

(* the members of an object, from the first character of a key *)
ParseMembers(s, i, obj) ==
  IF i > Len(s) \/ s[i] # "\"" THEN Err
  ELSE LET key == ParseString(s, i + 1, <<>>) IN
       IF ~IsOk(key) THEN Err
       ELSE LET colon == SkipWs(s, key[3]) IN
            IF colon > Len(s) \/ s[colon] # ":" THEN Err
            ELSE LET val == ParseValue(s, colon + 1) IN
                 IF ~IsOk(val) THEN Err
                 ELSE LET next == SkipWs(s, val[3])
                          added == SetProp(obj, key[2][2], val[2])
                      IN IF next > Len(s) THEN Err
                         ELSE IF s[next] = "}" THEN Ok(added, next + 1)
                         ELSE IF s[next] = ","
                              THEN ParseMembers(s, SkipWs(s, next + 1), added)
                         ELSE Err

(* the elements of an array, from its first value *)
ParseElements(s, i, items) ==
  LET val == ParseValue(s, i) IN
  IF ~IsOk(val) THEN Err
  ELSE LET next == SkipWs(s, val[3])
           added == Append(items, val[2])
       IN IF next > Len(s) THEN Err
          ELSE IF s[next] = "]" THEN Ok(Arr(added), next + 1)
          ELSE IF s[next] = "," THEN ParseElements(s, next + 1, added)
          ELSE Err

ParseValue(s, from) ==
  LET i == SkipWs(s, from) IN
  IF i > Len(s) THEN Err
  ELSE CASE s[i] = "{" ->
              LET j == SkipWs(s, i + 1) IN
              IF j <= Len(s) /\ s[j] = "}" THEN Ok(Obj(<<>>), j + 1)
              ELSE ParseMembers(s, j, Obj(<<>>))
         [] s[i] = "[" ->
              LET j == SkipWs(s, i + 1) IN
              IF j <= Len(s) /\ s[j] = "]" THEN Ok(Arr(<<>>), j + 1)
              ELSE ParseElements(s, j, <<>>)
         [] s[i] = "\"" -> ParseString(s, i + 1, <<>>)
         [] s[i] \in DigitSet -> ParseNumber(s, i)
         [] StartsWith(s, i, <<"n", "u", "l", "l">>) -> Ok(Null, i + 4)
         [] StartsWith(s, i, <<"t", "r", "u", "e">>) -> Ok(Bool(TRUE), i + 4)
         [] StartsWith(s, i, <<"f", "a", "l", "s", "e">>) -> Ok(Bool(FALSE), i + 5)
         [] OTHER -> Err

JSONParse(text) ==
  LET r == ParseValue(text, 1) IN
  IF IsOk(r) /\ SkipWs(text, r[3]) > Len(text) THEN r[2] ELSE Throw("SyntaxError")

(***************************************************************************)
(* findJsonObjects.  The pattern                                           *)
(*   \{(?:[^{}]|(?:\{[^{}]*\}))*\}  |  \[(?:[^\[\]]|(?:\[.*?\]))*\]        *)
(* is matched as the engine matches it: from an opening brace, over        *)
(* characters that are no brace and over {...} groups that hold no brace,  *)
(* to the first closing brace outside a group; from an opening bracket,    *)
(* over characters that are no bracket and over [...] groups that run to   *)
(* the nearest closing bracket of the line.  No other way of matching      *)
(* succeeds where this one fails, so backtracking adds no match.           *)
(* Characters outside ASCII are written by their code: "u200B".            *)
(***************************************************************************)
LineTerminators == {"\n", "\r", "u2028", "u2029"}
ZeroWidth == {"u200B", "u200C", "u200D", "uFEFF"}
RegexSpace == {" ", "\n", "\t", "\r", "\f", "uFEFF", "u2028", "u2029"}

RECURSIVE NextBrace(_, _)
NextBrace(text, j) == IF j > Len(text) THEN 0
                      ELSE IF text[j] \in {"{", "}"} THEN j
                      ELSE NextBrace(text, j + 1)

ScanBraceFlat(text, j) ==
  LET k == NextBrace(text, j) IN IF k = 0 \/ text[k] = "{" THEN 0 ELSE k

(* the closing brace of the match whose body goes on at j, or 0 *)
RECURSIVE ScanBrace(_, _)
ScanBrace(text, j) ==
  IF j > Len(text) THEN 0
  ELSE IF text[j] = "}" THEN j
  ELSE IF text[j] = "{"
       THEN LET k == NextBrace(text, j + 1) IN
            IF k = 0 \/ text[k] = "{" THEN 0 ELSE ScanBrace(text, k + 1)
  ELSE ScanBrace(text, j + 1)

(* the nearest closing bracket at or after j, on the same line, or 0 *)
RECURSIVE GroupEnd(_, _)
GroupEnd(text, j) == IF j > Len(text) THEN 0
                     ELSE IF text[j] = "]" THEN j
                     ELSE IF text[j] \in LineTerminators THEN 0
                     ELSE GroupEnd(text, j + 1)

RECURSIVE ScanBracket(_, _)
ScanBracket(text, j) ==
  IF j > Len(text) THEN 0
  ELSE IF text[j] = "]" THEN j
  ELSE IF text[j] = "["
       THEN LET k == GroupEnd(text, j + 1) IN
            IF k = 0 THEN 0 ELSE ScanBracket(text, k + 1)
  ELSE ScanBracket(text, j + 1)

(* the last character of the match that starts at i, or 0 *)
MatchEnd(text, i) == IF text[i] = "{" THEN ScanBrace(text, i + 1)
                     ELSE IF text[i] = "[" THEN ScanBracket(text, i + 1)
                     ELSE 0

(* text.match(jsonRegex) || [] *)
RECURSIVE Matches(_, _, _)
Matches(text, i, found) ==
  IF i > Len(text) THEN found
  ELSE LET e == MatchEnd(text, i) IN
       IF e = 0 THEN Matches(text, i + 1, found)
       ELSE Matches(text, e + 1, Append(found, SubSeq(text, i, e)))

StraightQuote(c) == CASE c \in {"u2018", "u2019"} -> "'"
                      [] c \in {"u201C", "u201D"} -> "\""
                      [] OTHER -> c

RECURSIVE SkipSpace(_, _)
SkipSpace(s, i) == IF i <= Len(s) /\ s[i] \in RegexSpace THEN SkipSpace(s, i + 1) ELSE i

(* .replace(/\n\s*(["}\\])/g, '$1') *)
RECURSIVE JoinBrokenLines(_, _)
JoinBrokenLines(s, i) ==
  IF i > Len(s) THEN <<>>
  ELSE LET j == SkipSpace(s, i + 1) IN
       IF s[i] = "\n" /\ j <= Len(s) /\ s[j] \in {"\"", "}", "\\"}
       THEN <<s[j]>> \o JoinBrokenLines(s, j + 1)
       ELSE <<s[i]>> \o JoinBrokenLines(s, i + 1)

(* .replace(/([{[]),\s*\n\s*/g, '$1') *)
RECURSIVE DropLeadingComma(_, _)
DropLeadingComma(s, i) ==
  IF i > Len(s) THEN <<>>
  ELSE LET j == SkipSpace(s, i + 2) IN
       IF /\ s[i] \in {"{", "["}
          /\ i + 1 <= Len(s) /\ s[i + 1] = ","
          /\ \E k \in (i + 2)..(j - 1) : s[k] = "\n"
       THEN <<s[i]>> \o DropLeadingComma(s, j)
       ELSE <<s[i]>> \o DropLeadingComma(s, i + 1)

(* .replace(/\\c/g, ' '), c being n or r *)
RECURSIVE BlankEscape(_, _, _)
BlankEscape(s, i, c) ==
  IF i > Len(s) THEN <<>>
  ELSE IF s[i] = "\\" /\ i + 1 <= Len(s) /\ s[i + 1] = c
       THEN <<" ">> \o BlankEscape(s, i + 2, c)
  ELSE <<s[i]>> \o BlankEscape(s, i + 1, c)

Clean(match) ==
  LET visible == SelectSeq(match, LAMBDA c : c \notin ZeroWidth)
      straight == [i \in 1..Len(visible) |-> StraightQuote(visible[i])]
      joined == JoinBrokenLines(straight, 1)
      opened == DropLeadingComma(joined, 1)
  IN BlankEscape(BlankEscape(opened, 1, "n"), 1, "r")

RECURSIVE CollectParsed(_, _)
CollectParsed(potentialMatches, results) ==
  IF potentialMatches = <<>> THEN results
  ELSE LET parsed == JSONParse(Clean(potentialMatches[1])) IN
       CollectParsed(Tail(potentialMatches),
                     IF IsThrow(parsed) THEN results
                     ELSE IF TypeOf(parsed) = "arr" THEN results \o parsed[2]
                     ELSE Append(results, parsed))

findJsonObjects(text) == CollectParsed(Matches(text, 1, <<>>), <<>>)

(***************************************************************************)
(* extractKeyValuePairs                                                    *)
(***************************************************************************)
RECURSIVE TrimStart(_)
TrimStart(s) == IF s # <<>> /\ s[1] \in RegexSpace THEN TrimStart(Tail(s)) ELSE s

RECURSIVE TrimEnd(_)
TrimEnd(s) == IF s # <<>> /\ s[Len(s)] \in RegexSpace
              THEN TrimEnd(SubSeq(s, 1, Len(s) - 1)) ELSE s

(* s.trim() *)
Trim(s) == TrimEnd(TrimStart(s))

LastNewline(s, from, to) ==
  IF \E k \in from..to : s[k] = "\n"
  THEN CHOOSE k \in from..to : s[k] = "\n" /\ \A m \in (k + 1)..to : s[m] # "\n"
  ELSE 0

(* where a match of (?:\r?\n\s*\r?\n|\{|\}|\[|\])+ that has reached i stops *)
RECURSIVE SeparatorEnd(_, _)
SeparatorEnd(text, i) ==
  IF i > Len(text) THEN i
  ELSE IF text[i] \in {"{", "}", "[", "]"} THEN SeparatorEnd(text, i + 1)
  ELSE LET nl == IF text[i] = "\r" /\ i + 1 <= Len(text) THEN i + 1 ELSE i
           last == LastNewline(text, nl + 1, SkipSpace(text, nl + 1) - 1)
       IN IF text[nl] = "\n" /\ last # 0 THEN SeparatorEnd(text, last + 1) ELSE i

RECURSIVE LineBreakEnd(_, _)
LineBreakEnd(text, i) ==
  IF i <= Len(text) /\ text[i] \in {"\n", ";"} THEN LineBreakEnd(text, i + 1) ELSE i

(* where a match of the separator that has reached i stops: the separator of
   blocks, or else the separator of lines *)
SepEnd(blocks, text, i) ==
  IF blocks THEN SeparatorEnd(text, i) ELSE LineBreakEnd(text, i)

(* text.split(separator) *)
RECURSIVE Split(_, _, _, _, _)
Split(text, i, blocks, piece, pieces) ==
  IF i > Len(text) THEN Append(pieces, piece)
  ELSE LET e == SepEnd(blocks, text, i) IN
       IF e > i THEN Split(text, e, blocks, <<>>, Append(pieces, piece))
       ELSE Split(text, i + 1, blocks, Append(piece, text[i]), pieces)

NotBlank(s) == Trim(s) # <<>>

Blocks(text) == SelectSeq(Split(text, 1, TRUE, <<>>, <<>>), NotBlank)

Lines(block) == SelectSeq(Split(block, 1, FALSE, <<>>, <<>>), NotBlank)

WordChars == {UpperCase[i] : i \in 1..Len(UpperCase)} \cup
             {LowerCase[i] : i \in 1..Len(LowerCase)} \cup DigitSet \cup {"_"}

(* .replace(/[\s_]+/g, '_') *)
RECURSIVE CollapseRuns(_, _, _)
CollapseRuns(s, class, with) ==
  IF s = <<>> THEN <<>>
  ELSE IF s[1] \in class
       THEN IF Len(s) > 1 /\ s[2] \in class THEN CollapseRuns(Tail(s), class, with)
            ELSE <<with>> \o CollapseRuns(Tail(s), class, with)
  ELSE <<s[1]>> \o CollapseRuns(Tail(s), class, with)

CleanKey(key) ==
  LET unquoted == SelectSeq(Trim(key), LAMBDA c : c \notin {"'", "\""})
      joined == CollapseRuns(unquoted, RegexSpace \cup {"_"}, "_")
      plain == SelectSeq(joined, LAMBDA c : c \in WordChars \cup RegexSpace \cup {"-"})
  IN ToLowerCase(plain)

(* .replace(/^["']|["']$/g, '') *)
StripQuotes(s) ==
  LET lead == s # <<>> /\ s[1] \in {"\"", "'"}
      trail == Len(s) > (IF lead THEN 1 ELSE 0) /\ s[Len(s)] \in {"\"", "'"}
  IN SubSeq(s, IF lead THEN 2 ELSE 1, IF trail THEN Len(s) - 1 ELSE Len(s))

CleanValue(value) == CollapseRuns(StripQuotes(Trim(value)), RegexSpace, " ")

FirstSeparator(line) ==
  IF \E i \in 1..Len(line) : line[i] \in {":", "="}
  THEN CHOOSE i \in 1..Len(line) :
         line[i] \in {":", "="} /\ \A j \in 1..(i - 1) : line[j] \notin {":", "="}
  ELSE 0

(* line.match(/^([^:=]+)[:=]\s*(.+)$/): <<key, value>>, or <<>> for no match *)
MatchLine(line) ==
  LET sep == FirstSeparator(line)
      rest == SubSeq(line, sep + 1, Len(line))
      tail == TrimStart(rest)
      value == IF tail # <<>> THEN tail ELSE SubSeq(rest, Len(rest), Len(rest))
  IN IF sep <= 1 \/ rest = <<>> \/ \E i \in 1..Len(value) : value[i] \in LineTerminators
     THEN <<>>
     ELSE <<SubSeq(line, 1, sep - 1), value>>

(* the lines of a block, read into currentEntry *)
RECURSIVE ReadLines(_, _)
ReadLines(lines, currentEntry) ==
  IF lines = <<>> THEN currentEntry
  ELSE LET match == MatchLine(lines[1])
           cleanKey == CleanKey(match[1])
           cleanValue == CleanValue(match[2])
       IN ReadLines(Tail(lines),
                    IF match # <<>> /\ cleanKey # <<>> /\ cleanValue # <<>>
                    THEN SetProp(currentEntry, cleanKey, Str(cleanValue))
                    ELSE currentEntry)

RECURSIVE ReadBlocks(_, _)
ReadBlocks(blocks, found) ==
  IF blocks = <<>> THEN found
  ELSE LET currentEntry == ReadLines(Lines(blocks[1]), Obj(<<>>)) IN
       ReadBlocks(Tail(blocks),
                  IF currentEntry[2] # <<>> THEN Append(found, currentEntry) ELSE found)

extractKeyValuePairs(text) == ReadBlocks(Blocks(text), <<>>)

(***************************************************************************)
(* The inputs: JSON values of bounded size (number of nodes).              *)
(***************************************************************************)
Keys == {<<"a">>, <<"b">>}

Scalars == {Null, Bool(FALSE), Num(0), Num(1), Str(<<>>), Str(<<"X">>)}

(* the arrangements of n distinct keys *)
RECURSIVE KeyArrangements(_, _)
KeyArrangements(n, ks) ==
  IF n = 0 THEN {<<>>}
  ELSE UNION {{<<k>> \o r : r \in KeyArrangements(n - 1, ks \ {k})} : k \in ks}

SeqsOf(seqs, m) == IF m = 0 THEN {<<>>} ELSE seqs[m]

Zip(ks, s) == [i \in 1..Len(s) |-> <<ks[i], s[i]>>]

(* the objects of the sequences in ss that have at least len members *)
RECURSIVE ObjectsOver(_, _)
ObjectsOver(len, ss) ==
  IF len > Cardinality(Keys) THEN {}
  ELSE {Obj(Zip(ks, s)) : ks \in KeyArrangements(len, Keys),
                          s \in {t \in ss : Len(t) = len}}
       \cup ObjectsOver(len + 1, ss)

ValuesAt(n, seqs) ==
  IF n = 1 THEN Scalars \cup {Arr(<<>>), Obj(<<>>)}
  ELSE {Arr(s) : s \in seqs[n - 1]} \cup ObjectsOver(1, seqs[n - 1])

(* the sequences of n nodes in all whose first value has at least k nodes *)
RECURSIVE SeqsFrom(_, _, _, _)
SeqsFrom(k, n, vs, seqs) ==
  IF k > n THEN {}
  ELSE {<<v>> \o s : v \in vs[k], s \in SeqsOf(seqs, n - k)}
       \cup SeqsFrom(k + 1, n, vs, seqs)

NextSeqs(n, vs, seqs) == SeqsFrom(1, n, vs, seqs)

(* vals[k]: the values of k nodes; seqs[k]: the sequences of values of k nodes in all *)
RECURSIVE ValueTable(_, _, _, _)
ValueTable(n, max, vals, seqs) ==
  LET vs == Append(vals, ValuesAt(n, seqs)) IN
  IF n >= max THEN vs
  ELSE ValueTable(n + 1, max, vs, Append(seqs, NextSeqs(n, vs, seqs)))

RECURSIVE UnionOf(_)
UnionOf(sets) == IF sets = <<>> THEN {} ELSE sets[1] \cup UnionOf(Tail(sets))

(* the JSON values of at most max nodes *)
ValuesUpTo(max) == UnionOf(ValueTable(1, max, <<>>, <<>>))

JsonValues == ValuesUpTo(MaxSize)

JsonObjects == {v \in JsonValues : TypeOf(v) = "obj"}

IsString(v) == TypeOf(v) = "str"

(* a Record: an object whose values are all strings *)
IsRecord(v) == TypeOf(v) = "obj" /\ \A i \in 1..Len(v[2]) : IsString(v[2][i][2])

(* the examples of the specification and of the claims *)
NestedExample ==
  Obj(<< <<<<"u">>, Obj(<< <<<<"n">>, Str(<<"A">>)>>,
                          <<<<"t">>, Arr(<<Str(<<"x">>), Str(<<"y">>)>>)>> >>)>> >>)

ScalarsExample == Obj(<< <<<<"a">>, Arr(<<Num(0), Num(1), Bool(FALSE)>>)>> >>)

MixedExample ==
  Obj(<< <<<<"a">>, Arr(<<Obj(<< <<<<"b">>, Num(1)>> >>), Num(0), Str(<<"x">>)>>)>> >>)

FlattenInputs == JsonObjects \cup {NestedExample, ScalarsExample, MixedExample}

(***************************************************************************)
(* flattenObject applied to a JSON object, and again to what it returned.  *)
(***************************************************************************)
FlattenInit == /\ pc = "call"
               /\ arg \in FlattenInputs
               /\ isWordDoc = FALSE
               /\ entries = <<>>
               /\ ret = None

Flatten == /\ pc = "call"
           /\ ret' = flattenObject(arg, <<>>)
           /\ pc' = "returned"
           /\ UNCHANGED <<arg, isWordDoc, entries>>

FlattenAgain == /\ pc = "returned"
                /\ ~IsThrow(ret)
                /\ arg' = ret
                /\ ret' = None
                /\ pc' = "call"
                /\ UNCHANGED <<isWordDoc, entries>>

FlattenNext == Flatten \/ FlattenAgain

SpecFlatten == FlattenInit /\ [][FlattenNext]_vars

(* C5: on every finite JSON mapping flattenObject returns normally, and what
   it returns is a single-level Record: every value is a string, none an
   object or an array. *)
C5_FlattenReturnsRecord == pc = "returned" => ~IsThrow(ret) /\ IsRecord(ret)

(* C8: flattening a Record whose values are all strings returns the same
   keys, in the same order, with the same values; so flattening what
   flattenObject returned returns it unchanged. *)
C8_FlattenIdempotent == pc = "returned" /\ IsRecord(arg) => ret = arg

(* a Record with a composite key, which only a first flattening makes, has
   been flattened again *)
C8_Witness == /\ pc = "returned"
              /\ IsRecord(arg)
              /\ ret = arg
              /\ \E i \in 1..Len(arg[2]) : Len(arg[2][i][1]) > 1

IsScalarList(v) == /\ TypeOf(v) = "arr"
                   /\ \A i \in 1..Len(v[2]) : TypeOf(v[2][i]) \in {"bool", "num", "str"}

(* C9: a sequence of scalars is flattened, under its own key, to the
   comma-space join of the string representations of its elements, 0, false
   and the empty string included. *)
C9_ScalarsJoined ==
  pc = "returned" /\ ~IsThrow(ret) =>
    \A i \in 1..Len(arg[2]) :
      IsScalarList(arg[2][i][2]) =>
        GetProp(ret, arg[2][i][1]) =
          Str(Join([j \in 1..Len(arg[2][i][2][2]) |-> JSString(arg[2][i][2][2][j])],
                   <<",", " ">>))

(***************************************************************************)
(* normalizeData applied to a parsed JSON value.                           *)
(***************************************************************************)
JsonArrays == {v \in JsonValues : TypeOf(v) = "arr"}

HeaderLists == {<<>>,
                <<Str(<<"X">>)>>,
                <<Str(<<"X">>), Str(<<"a">>)>>,
                <<Str(<<"X">>), Str(<<"x">>)>>,
                <<Str(<<"a">>), Num(1)>>,
                <<Null>>}

(* a list of headers followed by the elements of a JSON array as rows *)
TabularInputs == {Arr(<<Arr(h)>> \o v[2]) : h \in HeaderLists, v \in JsonArrays}

TableExample ==
  Arr(<<Arr(<<Str(<<"n", "a", "m", "e">>), Str(<<"a", "g", "e">>)>>),
        Arr(<<Str(<<"A", "l", "i", "c", "e">>), Str(<<"3", "0">>)>>),
        Arr(<<Str(<<"B", "o", "b">>), Str(<<"2", "5">>)>>)>>)

NormalizeInputs == JsonValues \cup TabularInputs \cup {TableExample}

NormalizeInit == /\ pc = "call"
                 /\ arg \in NormalizeInputs
                 /\ isWordDoc = FALSE
                 /\ entries = <<>>
                 /\ ret = None

Normalize == /\ pc = "call"
             /\ ret' = normalizeData(arg)
             /\ pc' = "returned"
             /\ UNCHANGED <<arg, isWordDoc, entries>>

NormalizeNext == Normalize

SpecNormalize == NormalizeInit /\ [][NormalizeNext]_vars

(* the input is a sequence whose first element is a sequence of distinct
   header names and whose other elements are sequences of strings, numbers
   and booleans *)
IsTable(v) ==
  /\ TypeOf(v) = "arr"
  /\ Len(v[2]) > 0
  /\ TypeOf(v[2][1]) = "arr"
  /\ \A i \in 1..Len(v[2][1][2]) : TypeOf(v[2][1][2][i]) = "str"
  /\ \A r \in 2..Len(v[2]) : IsScalarList(v[2][r])
  /\ \A i, j \in 1..Len(v[2][1][2]) :
       i # j => HeaderKey(v[2][1][2][i]) # HeaderKey(v[2][1][2][j])

(* C6: of tabular input, each element after the headers yields exactly one
   Record; its keys are the lower-cased header names and its value for the
   i-th header is the row's i-th value, the empty string standing in only
   for a position the row does not have. *)
C6_TableRows ==
  pc = "returned" /\ IsTable(arg) =>
    LET headers == arg[2][1][2]
        rows == Tail(arg[2])
    IN /\ TypeOf(ret) = "arr"
       /\ Len(ret[2]) = Len(rows)
       /\ \A r \in 1..Len(rows) :
            /\ KeySet(ret[2][r]) = {HeaderKey(headers[i]) : i \in 1..Len(headers)}
            /\ \A i \in 1..Len(headers) :
                 GetProp(ret[2][r], HeaderKey(headers[i])) =
                   IF i <= Len(rows[r][2]) THEN rows[r][2][i] ELSE EmptyString

(***************************************************************************)
(* mergeEntries applied to a list of Records.                              *)
(***************************************************************************)
MaxEntries == 3

Records == {v \in JsonValues : IsRecord(v)}

RECURSIVE ListsUpTo(_, _)
ListsUpTo(n, S) ==
  IF n = 0 THEN {<<>>}
  ELSE LET shorter == ListsUpTo(n - 1, S) IN
       shorter \cup {Append(l, x) : l \in {m \in shorter : Len(m) = n - 1}, x \in S}

MergeInit == /\ pc = "call"
             /\ arg \in {Arr(l) : l \in ListsUpTo(MaxEntries, Records)}
             /\ isWordDoc = FALSE
             /\ entries = <<>>
             /\ ret = None

Merge == /\ pc = "call"
         /\ ret' = Arr(mergeEntries(arg[2]))
         /\ pc' = "returned"
         /\ UNCHANGED <<arg, isWordDoc, entries>>

MergeNext == Merge

SpecMerge == MergeInit /\ [][MergeNext]_vars

(* C1: every Record mergeEntries returns has exactly the keys of SchemaUnion,
   the union of the keys of the Records that survive deduplication (which is
   the union over all the input, a duplicate having its original's keys). *)
C1_SchemaComplete ==
  pc = "returned" =>
    \A i \in 1..Len(ret[2]) :
      KeySet(ret[2][i]) = UNION {KeySet(arg[2][j]) : j \in 1..Len(arg[2])}

(* two Records with different key sets were merged, so one was padded *)
C1_Witness ==
  /\ pc = "returned"
  /\ Len(ret[2]) >= 2
  /\ \E i, j \in 1..Len(arg[2]) : KeySet(arg[2][i]) # KeySet(arg[2][j])

(* the same keys with the same values, in whatever order *)
SameContent(r, s) == {r[2][i] : i \in 1..Len(r[2])} = {s[2][i] : i \in 1..Len(s[2])}

(* C2: no two Records of mergeEntries' output have the same keys with the
   same values, whatever the order of their keys. *)
C2_NoDuplicates ==
  pc = "returned" =>
    \A i, j \in 1..Len(ret[2]) : i # j => ~SameContent(ret[2][i], ret[2][j])

(***************************************************************************)
(* The documents: a JSON value as JSON.stringify writes it, alone or with  *)
(* prose before and after it, and the examples.                            *)
(***************************************************************************)
MaxDocSize == 3

DocValues == ValuesUpTo(MaxDocSize)

DocObjects == {v \in DocValues : TypeOf(v) = "obj"}

See == <<"s", "e", "e", " ">>
Okay == <<" ", "o", "k">>
OpenSee == <<"[", "s", "e", "e", " ">>
OkayClose == <<" ", "o", "k", "]">>

ProseBefore == {<<>>, See, OpenSee}
ProseAfter == {<<>>, Okay, OkayClose}

Embedded == {pre \o JSONStringify(obj) \o post :
               obj \in DocObjects, pre \in ProseBefore, post \in ProseAfter}

KeyValueExample == <<"N", "a", "m", "e", ":", " ", "A", "l", "i", "c", "e",
                     "\n", "A", "g", "e", ":", " ", "3", "0", "\n", "\n",
                     "N", "a", "m", "e", ":", " ", "B", "o", "b", "\n", "A",
                     "g", "e", ":", " ", "2", "5">>

ProseExample == <<"h", "e", "l", "l", "o", " ", "w", "o", "r", "l", "d">>

TableText == <<"[", "[", "\"", "n", "a", "m", "e", "\"", ",", "\"", "a", "g",
               "e", "\"", "]", ",", "[", "\"", "A", "l", "i", "c", "e", "\"",
               ",", "3", "0", "]", "]">>

PrettyExample == <<"{", "\n", " ", "\"", "a", "\"", ":", " ", "\"", "X",
                   "\"", ",", "\n", " ", "\"", "b", "\"", ":", " ", "[", "1",
                   ",", "\n", " ", "2", "]", "\n", "}">>

CurlyQuotesExample == <<"{", "u201C", "a", "u201D", ":", "u201C", "X",
                        "u201D", "}">>

EscapeExample == <<"{", "\"", "a", "\"", ":", "\"", "x", "\\", "n", "y",
                   "\"", "}">>

ExampleTexts == {<<>>, KeyValueExample, ProseExample, TableText, PrettyExample,
                 CurlyQuotesExample, EscapeExample}

(***************************************************************************)
(* findJsonObjects applied to a text.                                      *)
(***************************************************************************)
FindInit == /\ pc = "call"
            /\ arg \in Embedded \cup ExampleTexts
            /\ isWordDoc = FALSE
            /\ entries = <<>>
            /\ ret = None

Find == /\ pc = "call"
        /\ ret' = Arr(findJsonObjects(arg))
        /\ pc' = "returned"
        /\ UNCHANGED <<arg, isWordDoc, entries>>

FindNext == Find

SpecFind == FindInit /\ [][FindNext]_vars

(* text is pre, then something, then post *)
Embeds(text, pre, post) ==
  /\ Len(text) >= Len(pre) + Len(post)
  /\ SubSeq(text, 1, Len(pre)) = pre
  /\ SubSeq(text, Len(text) - Len(post) + 1, Len(text)) = post

(* the well-formed JSON between pre and post, or a thrown SyntaxError *)
Between(text, pre, post) ==
  JSONParse(SubSeq(text, Len(pre) + 1, Len(text) - Len(post)))

(* C7 as claimed: of a text that is prose around one well-formed JSON
   object, brackets in the prose and objects nested to any depth allowed,
   findJsonObjects returns exactly one value, that object. *)
C7_FindsTheObject ==
  pc = "returned" =>
    \A pre \in ProseBefore, post \in ProseAfter :
      Embeds(arg, pre, post) /\ TypeOf(Between(arg, pre, post)) = "obj"
      => ret = Arr(<<Between(arg, pre, post)>>)

(* how deep braces nest in the text of a value *)
RECURSIVE BraceDepth(_)
BraceDepth(v) ==
  LET Deepest(xs) == IF xs = <<>> THEN 0
                     ELSE CHOOSE d \in {BraceDepth(xs[i]) : i \in 1..Len(xs)} :
                            \A i \in 1..Len(xs) : BraceDepth(xs[i]) <= d
  IN CASE TypeOf(v) = "obj" -> 1 + Deepest(ValuesOf(v))
       [] TypeOf(v) = "arr" -> Deepest(v[2])
       [] OTHER -> 0

(* the strings of a value, its keys included *)
RECURSIVE StringsOf(_)
StringsOf(v) ==
  CASE TypeOf(v) = "str" -> {v[2]}
    [] TypeOf(v) = "arr" -> UNION {StringsOf(v[2][i]) : i \in 1..Len(v[2])}
    [] TypeOf(v) = "obj" -> KeySet(v) \cup UNION {StringsOf(v[2][i][2]) : i \in 1..Len(v[2])}
    [] OTHER -> {}

(* no string holds a character that the pattern or the repair acts on *)
PlainStrings(v) ==
  \A s \in StringsOf(v) : \A i \in 1..Len(s) :
    s[i] \notin {"{", "}", "\\", "\n", "\r", "u2018", "u2019", "u201C", "u201D"} \cup ZeroWidth

PlainProse(s) == \A i \in 1..Len(s) : s[i] \notin {"{", "}", "[", "]"}

(* C7, amended: of a text that is prose without braces and brackets around
   one well-formed JSON object whose braces nest at most one level inside
   the outer pair and whose strings hold no brace, backslash, line break,
   curly quote or zero-width character, findJsonObjects returns exactly one
   value, that object. *)
C7_FindsTheShallowObject ==
  pc = "returned" =>
    \A pre \in ProseBefore, post \in ProseAfter :
      /\ Embeds(arg, pre, post) /\ TypeOf(Between(arg, pre, post)) = "obj"
      /\ PlainProse(pre) /\ PlainProse(post)
      /\ BraceDepth(Between(arg, pre, post)) <= 2
      /\ PlainStrings(Between(arg, pre, post))
      => ret = Arr(<<Between(arg, pre, post)>>)

(* an object that holds an object has been found in prose *)
C7_Witness ==
  /\ pc = "returned"
  /\ Embeds(arg, See, Okay)
  /\ TypeOf(Between(arg, See, Okay)) = "obj"
  /\ BraceDepth(Between(arg, See, Okay)) = 2
  /\ ret = Arr(<<Between(arg, See, Okay)>>)

(***************************************************************************)
(* parseDocument                                                           *)
(***************************************************************************)
CouldNotParse == Throw("Could not parse the document")

(* both extractors over the text: the entries, or what normalizeData threw *)
ExtractBoth(text) ==
  LET jsonEntries == findJsonObjects(text)
      normalized == IF Len(jsonEntries) > 0 THEN normalizeData(Arr(jsonEntries))
                    ELSE Arr(<<>>)
      kvEntries == extractKeyValuePairs(text)
  IN IF IsThrow(normalized) THEN normalized ELSE Arr(normalized[2] \o kvEntries)

(* the JSON file: the text parsed whole, or else both extractors *)
ParseOrExtract(text) ==
  LET jsonData == JSONParse(text)
      normalized == IF IsThrow(jsonData) THEN jsonData ELSE normalizeData(jsonData)
  IN IF IsThrow(normalized) THEN ExtractBoth(text) ELSE normalized

MergeUnchecked(found) ==
  IF IsThrow(found) THEN CouldNotParse ELSE Arr(mergeEntries(found[2]))

(* from the check for no entries on: what parseDocument returns or throws *)
Finish(found) ==
  IF IsThrow(found) \/ Len(found[2]) = 0 THEN CouldNotParse
  ELSE Arr(mergeEntries(found[2]))

ParseInputs == {JSONStringify(v) : v \in DocValues} \cup Embedded \cup ExampleTexts

Init == /\ pc = "start"
        /\ arg \in ParseInputs
        /\ isWordDoc \in BOOLEAN
        /\ entries = <<>>
        /\ ret = None

(* await input.arrayBuffer(); await mammoth.extractRawText(...) *)
Decode == /\ pc = "start"
          /\ isWordDoc
          /\ pc' = "decoded"
          /\ UNCHANGED <<arg, isWordDoc, entries, ret>>

(* the decoding rejects: the error is caught and the terminal error thrown *)
DecodeFails == /\ pc = "start"
               /\ isWordDoc
               /\ pc' = "done"
               /\ ret' = CouldNotParse
               /\ UNCHANGED <<arg, isWordDoc, entries>>

Conclude(found) == /\ entries' = IF IsThrow(found) THEN <<>> ELSE found[2]
                   /\ ret' = Finish(found)
                   /\ pc' = "done"
                   /\ UNCHANGED <<arg, isWordDoc>>

ParseWord == /\ pc = "decoded"
             /\ Conclude(ExtractBoth(arg))

ParseJson == /\ pc = "start"
             /\ ~isWordDoc
             /\ Conclude(ParseOrExtract(arg))

Next == Decode \/ DecodeFails \/ ParseWord \/ ParseJson

Spec == Init /\ [][Next]_vars

(* C3: every value of every Record parseDocument returns is a string, on
   every path. *)
C3_ValuesAreStrings ==
  pc = "done" /\ ~IsThrow(ret) => \A i \in 1..Len(ret[2]) : IsRecord(ret[2][i])

(* C4: parseDocument never returns an empty sequence: with no entries after
   extraction it throws the terminal error, and otherwise it returns at
   least one Record. *)
C4_NeverEmpty ==
  pc = "done" =>
    IF entries = <<>> THEN ret = CouldNotParse
    ELSE TypeOf(ret) = "arr" /\ Len(ret[2]) >= 1

(* text without structure went through both extractors, which found nothing *)
C4_Witness ==
  /\ pc = "done"
  /\ arg = ProseExample
  /\ ~isWordDoc
  /\ entries = <<>>
  /\ ret = CouldNotParse

(* C10: in the paths that run both extractors, text that is one well-formed
   flat JSON object yields exactly one output Record: the key-value
   extractor adds none for a fragment that findJsonObjects parsed. *)
C10_OneRecordPerObject ==
  pc = "done" /\ isWordDoc /\ IsRecord(JSONParse(arg)) /\ ~IsThrow(ret) =>
    Len(ret[2]) = 1

=============================================================================
